---- MODULE Spec2Model ----
(***************************************************************************)
(* Model of kardiamobile-1l-ecg-convert-pdf-to-edf.py: the baseline        *)
(* locator (extract_baselines), the waveform extractor                     *)
(* (extract_ecg_waveform_rows), the voltage reconstruction loop of main    *)
(* and the calls main makes on the EDF writer.                             *)
(*                                                                         *)
(* Coordinates, stroke widths and color components are integers counting   *)
(* thousandths (1 unit = 0.001), so every threshold of the source is an    *)
(* integer: 0.35 -> 350, 0.01 -> 10, 0.001 -> 1, 500 -> 500000,            *)
(* 28.346 -> 28346.  Quotients (the mean y of a primitive, a voltage) are  *)
(* exact fractions [num, den]; the rounding of IEEE doubles is not         *)
(* modelled.                                                               *)
(***************************************************************************)
EXTENDS Integers, Sequences, FiniteSets, TLC

VARIABLES page, pc, baselines, k, rows, ri, deduped, voltages,
          all_voltages, signal, edf_writer, trace

vars == <<page, pc, baselines, k, rows, ri, deduped, voltages,
          all_voltages, signal, edf_writer, trace>>

(* ----------------------------- bounds ---------------------------------- *)
MaxPaths == 3
MaxK == 2

(* ------------------------ program constants ---------------------------- *)
WIDTH_LO == 350
WIDTH_HI == 450
MIN_BASELINE_ITEMS == 4
HORIZONTAL_TOL == 10
MIN_SPAN == 500000
VISIBLE_Y == 760000
N_BASELINES == 4
MIN_WAVEFORM_ITEMS == 40
POINT_TOL == 1
MAX_ROW_DIST == 80000
DEDUP_TOL == 10
CAL_PT_PER_MV == 28346
MARGIN_DEN == 10
DIGITAL_MIN == -32768
DIGITAL_MAX == 32767

BLACK == <<0, 0, 0>>
NoColor == <<>>
NoWidth == -1
NoBaselines == <<>>

Abs(n) == IF n < 0 THEN -n ELSE n

(* --------------------------- input pages ------------------------------- *)
Pt(x, y) == [x |-> x, y |-> y]
L(x1, y1, x2, y2) == <<"l", Pt(x1, y1), Pt(x2, y2)>>
Cv(x1, y1, x2, y2) == <<"c", Pt(x1, y1), Pt(x2, y2)>>
H(y) == L(0, y, 600000, y)
Pad(n) == [i \in 1..n |-> Cv(0, 50000, 600000, 50000)]
Prim(color, width, items) == [color |-> color, width |-> width, items |-> items]

Drawings ==
  [ grid |-> Prim(BLACK, 400,
        <<H(100000), H(300000), H(500000), H(700000)>>),
    gridDecoy |-> Prim(BLACK, 400,
        <<L(0, 50000, 500000, 50000), H(760000),
          L(0, 60000, 600000, 60010), Cv(0, 70000, 600000, 70000),
          H(100000), L(600000, 200000, 0, 200000), L(0, 300000, 600000, 300009),
          L(0, 80000, 400000, 80000), H(400000), H(500000)>>),
    gridUnsorted |-> Prim(BLACK, 400,
        <<H(500000), H(100000), H(300000), H(300000)>>),
    gridShort |-> Prim(BLACK, 400,
        <<H(150000), H(350000), H(550000), H(760000), L(0, 90000, 500000, 90000)>>),
    gridBlue |-> Prim(<<0, 0, 1000>>, 400,
        <<H(110000), H(310000), H(510000), H(710000)>>),
    gridThick |-> Prim(BLACK, 450,
        <<H(120000), H(320000), H(520000), H(720000)>>),
    trace0 |-> Prim(BLACK, 400,
        <<L(10000, 100000, 20000, 90000), L(20000, 90000, 30000, 110000)>>
        \o Pad(38)),
    trace0b |-> Prim(BLACK, 400,
        <<L(30005, 110000, 30011, 95000), L(30011, 95001, 30021, 100000),
          L(30021, 100002, 30032, 100000)>> \o Pad(38)),
    trace2 |-> Prim(BLACK, 449,
        Pad(39) \o <<L(10000, 290000, 20000, 310000)>>),
    traceTie |-> Prim(BLACK, 351,
        <<L(5000, 140000, 15000, 160000)>> \o Pad(40)),
    traceFar |-> Prim(BLACK, 400,
        <<L(5000, 180000, 15000, 180000)>> \o Pad(39)),
    traceNear |-> Prim(BLACK, 400,
        <<L(6000, 180000, 16000, 180000), L(16000, 180000, 26000, 179999)>>
        \o Pad(38)),
    traceBlue |-> Prim(<<0, 0, 1>>, 400,
        <<L(40000, 100000, 50000, 90000), L(50000, 90000, 60000, 110000)>>
        \o Pad(38)),
    trace39 |-> Prim(BLACK, 400,
        <<L(70000, 100000, 80000, 90000)>> \o Pad(38)),
    traceNoLines |-> Prim(BLACK, 400, Pad(40)),
    traceNoWidth |-> Prim(BLACK, NoWidth,
        <<L(90000, 100000, 95000, 90000)>> \o Pad(39)) ]

PrimNames == DOMAIN Drawings

get_drawings(pg) == [i \in 1..Len(pg) |-> Drawings[pg[i]]]

Pages == UNION {[1..n -> PrimNames] : n \in 1..MaxPaths}

(* ------------------------- extract_baselines --------------------------- *)
IsBaselinePath(path) ==
  /\ path.color = BLACK
  /\ path.width # NoWidth
  /\ WIDTH_LO < path.width /\ path.width < WIDTH_HI
  /\ Len(path.items) >= MIN_BASELINE_ITEMS

\* variant: a span of exactly 500 units counts
IsHorizontalSpan_Inclusive(item) ==
  /\ item[1] = "l"
  /\ Abs(item[2].y - item[3].y) < HORIZONTAL_TOL
  /\ Abs(item[3].x - item[2].x) >= MIN_SPAN

IsHorizontalSpan(item) ==
  /\ item[1] = "l"
  /\ Abs(item[2].y - item[3].y) < HORIZONTAL_TOL
  /\ Abs(item[3].x - item[2].x) > MIN_SPAN

RECURSIVE HorizontalYs(_)
HorizontalYs(items) ==
  IF items = <<>> THEN <<>>
  ELSE (IF IsHorizontalSpan(Head(items)) THEN <<Head(items)[2].y>> ELSE <<>>)
       \o HorizontalYs(Tail(items))

\* variant: y = 760 counts as visible
IsVisible_Inclusive(y) == y <= VISIBLE_Y

IsVisible(y) == y < VISIBLE_Y

Visible(y_values) == SelectSeq(y_values, IsVisible)

EnoughBaselines(visible) == Len(visible) >= N_BASELINES

RECURSIVE extract_baselines_from(_, _)
extract_baselines_from(paths, i) ==
  IF i > Len(paths) THEN NoBaselines
  ELSE IF IsBaselinePath(paths[i])
          /\ EnoughBaselines(Visible(HorizontalYs(paths[i].items)))
       THEN SubSeq(Visible(HorizontalYs(paths[i].items)), 1, N_BASELINES)
       ELSE extract_baselines_from(paths, i + 1)

extract_baselines(pg) == extract_baselines_from(get_drawings(pg), 1)

(* --------------------- extract_ecg_waveform_rows ----------------------- *)
\* variant: the color test inverted, strokes that are not pure black pass
IsWaveformPath_NonBlack(path) ==
  ~ ( \/ path.color = BLACK
      \/ path.width = NoWidth
      \/ ~ (WIDTH_LO < path.width /\ path.width < WIDTH_HI)
      \/ Len(path.items) < MIN_WAVEFORM_ITEMS )

IsWaveformPath(path) ==
  ~ ( \/ path.color # BLACK
      \/ path.width = NoWidth
      \/ ~ (WIDTH_LO < path.width /\ path.width < WIDTH_HI)
      \/ Len(path.items) < MIN_WAVEFORM_ITEMS )

IsSingleItem(path) == Len(path.items) = 1

RECURSIVE ExtractPointsFrom(_, _, _)
ExtractPointsFrom(items, i, points) ==
  IF i > Len(items) THEN points
  ELSE IF items[i][1] = "l"
       THEN LET p1 == items[i][2]
                p2 == items[i][3]
                withP1 ==
                  IF \/ points = <<>>
                     \/ Abs(points[Len(points)][1] - p1.x) > POINT_TOL
                     \/ Abs(points[Len(points)][2] - p1.y) > POINT_TOL
                  THEN Append(points, <<p1.x, p1.y>>)
                  ELSE points
            IN ExtractPointsFrom(items, i + 1, Append(withP1, <<p2.x, p2.y>>))
       ELSE ExtractPointsFrom(items, i + 1, points)

ExtractPoints(items) == ExtractPointsFrom(items, 1, <<>>)

RECURSIVE SumY(_)
SumY(points) ==
  IF points = <<>> THEN 0 ELSE points[1][2] + SumY(Tail(points))

\* np.mean of the y values, as the exact fraction sum / count
YCenter(points) == [num |-> SumY(points), den |-> Len(points)]

\* abs(y_center - bl), as a numerator over the denominator of y_center
Dist(y_center, bl) == Abs(y_center.num - bl * y_center.den)

\* the loop over enumerate(baselines); best_row = -1 stands for min_dist = inf
RECURSIVE NearestFrom(_, _, _, _)
NearestFrom(y_center, bls, i, best) ==
  IF i > Len(bls) THEN best
  ELSE LET dist == Dist(y_center, bls[i])
       IN IF best.best_row = -1 \/ dist < best.min_dist
          THEN NearestFrom(y_center, bls, i + 1,
                           [best_row |-> i - 1, min_dist |-> dist])
          ELSE NearestFrom(y_center, bls, i + 1, best)

Nearest(y_center, bls) ==
  NearestFrom(y_center, bls, 1, [best_row |-> -1, min_dist |-> 0])

\* variant: a distance of exactly 80 units is accepted
CloseEnough_Inclusive(best, y_center) ==
  best.best_row >= 0 /\ best.min_dist <= MAX_ROW_DIST * y_center.den

CloseEnough(best, y_center) ==
  best.best_row >= 0 /\ best.min_dist < MAX_ROW_DIST * y_center.den

\* the body of the loop over paths: the rows after one path is processed
AssignPath(rws, path, bls) ==
  IF ~ IsWaveformPath(path) THEN rws
  ELSE IF IsSingleItem(path) THEN rws
  ELSE LET points == ExtractPoints(path.items)
       IN IF points = <<>> THEN rws
          ELSE LET y_center == YCenter(points)
                   best == Nearest(y_center, bls)
               IN IF CloseEnough(best, y_center)
                  THEN [rws EXCEPT ![best.best_row] = @ \o points]
                  ELSE rws

\* list.sort(key=lambda p: p[0]) is stable: equal x keep their order
RECURSIVE InsertByX(_, _)
InsertByX(sorted, p) ==
  IF sorted = <<>> THEN <<p>>
  ELSE IF sorted[Len(sorted)][1] <= p[1] THEN Append(sorted, p)
  ELSE Append(InsertByX(SubSeq(sorted, 1, Len(sorted) - 1), p),
              sorted[Len(sorted)])

RECURSIVE SortByX(_)
SortByX(points) ==
  IF points = <<>> THEN <<>>
  ELSE InsertByX(SortByX(SubSeq(points, 1, Len(points) - 1)),
                 points[Len(points)])

(* ------------------------- points_to_voltage --------------------------- *)
\* variant: the sign of the difference inverted
Voltage_Inverted(y, baseline_y, cal_pt_per_mv) ==
  [num |-> y - baseline_y, den |-> cal_pt_per_mv]

Voltage(y, baseline_y, cal_pt_per_mv) ==
  [num |-> baseline_y - y, den |-> cal_pt_per_mv]

points_to_voltage(points, baseline_y, cal_pt_per_mv) ==
  [i \in 1..Len(points) |-> Voltage(points[i][2], baseline_y, cal_pt_per_mv)]

(* ------------------------ main: deduplication -------------------------- *)
\* variant: a point exactly 0.01 after the kept one is kept too
FarEnough_Inclusive(x, last_x) == Abs(x - last_x) >= DEDUP_TOL

FarEnough(x, last_x) == Abs(x - last_x) > DEDUP_TOL

RECURSIVE DedupFrom(_, _, _)
DedupFrom(points, i, kept) ==
  IF i > Len(points) THEN kept
  ELSE DedupFrom(points, i + 1,
                 IF FarEnough(points[i][1], kept[Len(kept)][1])
                 THEN Append(kept, points[i])
                 ELSE kept)

Dedup(points) == DedupFrom(points, 2, <<points[1]>>)

\* variant: the row is put in front of the sequence
Extend_Prepend(all, vs) == vs \o all

\* all_voltages.extend(voltages)
Extend(all, vs) == all \o vs

\* numerators of signal.min() and signal.max(); all samples share one den
MinNum(sig) == CHOOSE m \in {sig[i].num : i \in 1..Len(sig)} :
                 \A j \in 1..Len(sig) : m <= sig[j].num
MaxNum(sig) == CHOOSE m \in {sig[i].num : i \in 1..Len(sig)} :
                 \A j \in 1..Len(sig) : m >= sig[j].num

\* float(np.min(signal)) - 0.1 and float(np.max(signal)) + 0.1
PhysMin(sig) == [num |-> MARGIN_DEN * MinNum(sig) - sig[1].den,
                 den |-> MARGIN_DEN * sig[1].den]
PhysMax(sig) == [num |-> MARGIN_DEN * MaxNum(sig) + sig[1].den,
                 den |-> MARGIN_DEN * sig[1].den]

(* ------------------------------- main ---------------------------------- *)
NoWriter == [state |-> "none", calls |-> <<>>, physical |-> <<>>,
             digital |-> <<>>, samples |-> <<>>]

\* the component at work, appended when it changes
Stage(tr, name) ==
  IF tr # <<>> /\ tr[Len(tr)] = name THEN tr ELSE Append(tr, name)

Init ==
  /\ page \in Pages
  /\ pc = "start"
  /\ baselines = NoBaselines
  /\ k = 0
  /\ rows = [r \in 0..(N_BASELINES - 1) |-> <<>>]
  /\ ri = 0
  /\ deduped = <<>>
  /\ voltages = <<>>
  /\ all_voltages = <<>>
  /\ signal = <<>>
  /\ edf_writer = NoWriter
  /\ trace = <<>>

\* baselines = extract_baselines(page)
Locate ==
  /\ pc = "start"
  /\ baselines' = extract_baselines(page)
  /\ pc' = "located"
  /\ trace' = Stage(trace, "Locator")
  /\ UNCHANGED <<page, k, rows, ri, deduped, voltages, all_voltages, signal,
                 edf_writer>>

\* if not baselines: raise RuntimeError(...)
RaiseBaselineNotFound ==
  /\ pc = "located"
  /\ baselines = NoBaselines
  /\ pc' = "error"
  /\ UNCHANGED <<page, baselines, k, rows, ri, deduped, voltages,
                 all_voltages, signal, edf_writer, trace>>

\* the call of extract_ecg_waveform_rows: rows = {i: [] ...}
EnterExtractor ==
  /\ pc = "located"
  /\ baselines # NoBaselines
  /\ rows' = [r \in 0..(Len(baselines) - 1) |-> <<>>]
  /\ k' = 1
  /\ pc' = "extract"
  /\ trace' = Stage(trace, "Extractor")
  /\ UNCHANGED <<page, baselines, ri, deduped, voltages, all_voltages,
                 signal, edf_writer>>

\* one iteration of "for path in paths"
ExtractPath ==
  /\ pc = "extract"
  /\ k <= Len(page)
  /\ rows' = AssignPath(rows, get_drawings(page)[k], baselines)
  /\ k' = k + 1
  /\ UNCHANGED <<page, pc, baselines, ri, deduped, voltages, all_voltages,
                 signal, edf_writer, trace>>

\* the loop is over: sort each row by x, return; main starts its own loop
ExtractReturn ==
  /\ pc = "extract"
  /\ k > Len(page)
  /\ rows' = [r \in DOMAIN rows |-> SortByX(rows[r])]
  /\ pc' = "reconstruct"
  /\ ri' = 0
  /\ all_voltages' = <<>>
  /\ trace' = Stage(trace, "Reconstructor")
  /\ UNCHANGED <<page, baselines, k, deduped, voltages, signal, edf_writer>>

\* if not points: print("Row ri: no data"); continue
SkipEmptyRow ==
  /\ pc = "reconstruct"
  /\ ri < Len(baselines)
  /\ rows[ri] = <<>>
  /\ ri' = ri + 1
  /\ UNCHANGED <<page, pc, baselines, k, rows, deduped, voltages,
                 all_voltages, signal, edf_writer, trace>>

\* deduplicate, convert and append one non-empty row
ReconstructRow ==
  /\ pc = "reconstruct"
  /\ ri < Len(baselines)
  /\ rows[ri] # <<>>
  /\ deduped' = Dedup(rows[ri])
  /\ voltages' = points_to_voltage(deduped', baselines[ri + 1], CAL_PT_PER_MV)
  /\ all_voltages' = Extend(all_voltages, voltages')
  /\ ri' = ri + 1
  /\ UNCHANGED <<page, pc, baselines, k, rows, signal, edf_writer, trace>>

\* signal = np.array(all_voltages); signal.min() of an empty array raises
SummaryCrash ==
  /\ pc = "reconstruct"
  /\ ri = Len(baselines)
  /\ all_voltages = <<>>
  /\ signal' = all_voltages
  /\ pc' = "crashed"
  /\ UNCHANGED <<page, baselines, k, rows, ri, deduped, voltages,
                 all_voltages, edf_writer, trace>>

Summary ==
  /\ pc = "reconstruct"
  /\ ri = Len(baselines)
  /\ all_voltages # <<>>
  /\ signal' = all_voltages
  /\ pc' = "create"
  /\ UNCHANGED <<page, baselines, k, rows, ri, deduped, voltages,
                 all_voltages, edf_writer, trace>>

PatientCalls == <<"setPatientName", "setSex", "setBirthdate",
                  "setStartdatetime", "setEquipment", "setRecordingAdditional">>
ChannelCalls == <<"setLabel", "setPhysicalDimension", "setSamplefrequency",
                  "setTransducer", "setPrefilter">>
RangeCalls == <<"setPhysicalMinimum", "setPhysicalMaximum",
                "setDigitalMinimum", "setDigitalMaximum">>

\* edf_writer = pyedflib.EdfWriter(...)
CreateWriter ==
  /\ pc = "create"
  /\ edf_writer' = [NoWriter EXCEPT !.state = "open", !.calls = <<"EdfWriter">>]
  /\ pc' = "patient"
  /\ trace' = Stage(trace, "Sink")
  /\ UNCHANGED <<page, baselines, k, rows, ri, deduped, voltages,
                 all_voltages, signal>>

SetPatientInfo ==
  /\ pc = "patient"
  /\ edf_writer' = [edf_writer EXCEPT !.calls = @ \o PatientCalls]
  /\ pc' = "channel"
  /\ UNCHANGED <<page, baselines, k, rows, ri, deduped, voltages,
                 all_voltages, signal, trace>>

ConfigureChannel ==
  /\ pc = "channel"
  /\ edf_writer' = [edf_writer EXCEPT !.calls = @ \o ChannelCalls]
  /\ pc' = "ranges"
  /\ UNCHANGED <<page, baselines, k, rows, ri, deduped, voltages,
                 all_voltages, signal, trace>>

\* variant: the physical and digital ranges are never set
SetRanges_Missing ==
  /\ pc = "ranges"
  /\ pc' = "write"
  /\ UNCHANGED <<page, baselines, k, rows, ri, deduped, voltages,
                 all_voltages, signal, edf_writer, trace>>

SetRanges ==
  /\ pc = "ranges"
  /\ edf_writer' = [edf_writer EXCEPT
                      !.calls = @ \o RangeCalls,
                      !.physical = <<PhysMin(signal), PhysMax(signal)>>,
                      !.digital = <<DIGITAL_MIN, DIGITAL_MAX>>]
  /\ pc' = "write"
  /\ UNCHANGED <<page, baselines, k, rows, ri, deduped, voltages,
                 all_voltages, signal, trace>>

\* edf_writer.writeSamples([signal])
WriteSamples ==
  /\ pc = "write"
  /\ edf_writer' = [edf_writer EXCEPT !.calls = Append(@, "writeSamples"),
                                      !.samples = Append(@, signal)]
  /\ pc' = "close"
  /\ UNCHANGED <<page, baselines, k, rows, ri, deduped, voltages,
                 all_voltages, signal, trace>>

CloseWriter ==
  /\ pc = "close"
  /\ edf_writer' = [edf_writer EXCEPT !.calls = Append(@, "close"),
                                      !.state = "closed"]
  /\ pc' = "done"
  /\ UNCHANGED <<page, baselines, k, rows, ri, deduped, voltages,
                 all_voltages, signal, trace>>

Next ==
  \/ Locate
  \/ RaiseBaselineNotFound
  \/ EnterExtractor
  \/ ExtractPath
  \/ ExtractReturn
  \/ SkipEmptyRow
  \/ ReconstructRow
  \/ SummaryCrash
  \/ Summary
  \/ CreateWriter
  \/ SetPatientInfo
  \/ ConfigureChannel
  \/ SetRanges
  \/ WriteSamples
  \/ CloseWriter

Spec == Init /\ [][Next]_vars

(* ============================== claims ================================= *)

\* a step of the loop of extract_ecg_waveform_rows over the path at index k
ExtractStep == pc = "extract" /\ k <= Len(page) /\ k' = k + 1

CurrentPath == get_drawings(page)[k]

\* some baseline lies less than 80 units from the mean y of the points
WithinReach(points) ==
  \E i \in 1..Len(baselines) :
    Dist(YCenter(points), baselines[i]) < MAX_ROW_DIST * Len(points)

WidthInRange(path) ==
  path.width # NoWidth /\ WIDTH_LO < path.width /\ path.width < WIDTH_HI

(* C1 as stated: a primitive is a waveform stroke exactly when its width is
   in (0.35, 0.45), its color is NOT pure black and it has at least 40 draw
   commands; such a primitive with points within 80 units of a baseline
   contributes them to a row, and a pure-black primitive never contributes. *)
C1_AsStated ==
  [][ExtractStep =>
       /\ (CurrentPath.color = BLACK => rows' = rows)
       /\ ( ( /\ CurrentPath.color # BLACK
              /\ WidthInRange(CurrentPath)
              /\ Len(CurrentPath.items) >= MIN_WAVEFORM_ITEMS
              /\ ExtractPoints(CurrentPath.items) # <<>>
              /\ WithinReach(ExtractPoints(CurrentPath.items)) )
            => rows' # rows )]_vars

(* C1 amended: a primitive is a waveform stroke exactly when its width is in
   (0.35, 0.45), its color IS pure black and it has at least 40 draw
   commands; such a primitive with points within 80 units of a baseline
   contributes them to a row, and a primitive that is not pure black (or
   fails the width or the count test) never contributes. *)
C1_WaveformIsBlack ==
  [][ExtractStep =>
       /\ ( rows' # rows =>
              /\ CurrentPath.color = BLACK
              /\ WidthInRange(CurrentPath)
              /\ Len(CurrentPath.items) >= MIN_WAVEFORM_ITEMS )
       /\ ( ( /\ CurrentPath.color = BLACK
              /\ WidthInRange(CurrentPath)
              /\ Len(CurrentPath.items) >= MIN_WAVEFORM_ITEMS
              /\ ExtractPoints(CurrentPath.items) # <<>>
              /\ WithinReach(ExtractPoints(CurrentPath.items)) )
            => rows' # rows )]_vars

\* a pure-black stroke has put its points in a row, and a stroke that is
\* not pure black but otherwise alike has been passed over
C1_Witness ==
  /\ pc = "extract"
  /\ \E i \in 1..(k - 1), j \in 1..(k - 1) :
       /\ get_drawings(page)[i].color = BLACK
       /\ Len(get_drawings(page)[i].items) >= MIN_WAVEFORM_ITEMS
       /\ get_drawings(page)[j].color \notin {BLACK, NoColor}
       /\ Len(get_drawings(page)[j].items) >= MIN_WAVEFORM_ITEMS
       /\ WidthInRange(get_drawings(page)[j])
       /\ \E r \in DOMAIN rows :
            rows[r] = ExtractPoints(get_drawings(page)[i].items)

(* C2: extract_baselines either fails or returns exactly 4 y-values: the
   p1.y of the first 4 line commands, in encounter order, that are
   horizontal (|p1.y - p2.y| < 0.01), span more than 500 units and have
   y < 760, all taken from one primitive that is pure black, has width in
   (0.35, 0.45) and at least 4 draw commands. *)
C2_BaselineResult ==
  pc # "start" =>
    \/ baselines = NoBaselines
    \/ /\ Len(baselines) = 4
       /\ \E j \in 1..Len(page) :
            LET path == get_drawings(page)[j]
                Q == {i \in 1..Len(path.items) :
                        /\ path.items[i][1] = "l"
                        /\ Abs(path.items[i][2].y - path.items[i][3].y) < 10
                        /\ Abs(path.items[i][3].x - path.items[i][2].x) > 500000
                        /\ path.items[i][2].y < 760000}
                Nth(n) == CHOOSE i \in Q : Cardinality({h \in Q : h < i}) = n - 1
            IN /\ path.color = BLACK
               /\ WidthInRange(path)
               /\ Len(path.items) >= 4
               /\ Cardinality(Q) >= 4
               /\ \A n \in 1..4 : baselines[n] = path.items[Nth(n)][2].y

\* baselines were found in a primitive that holds decoys before and between
\* the four segments, behind a primitive of the wrong color
C2_Witness ==
  /\ pc = "located"
  /\ baselines = <<100000, 200000, 300000, 400000>>
  /\ Len(page) >= 2
  /\ get_drawings(page)[1].color # BLACK

(* C3: when fewer than 4 qualifying horizontal segments exist in the
   primitives that satisfy the baseline rule (in particular when no
   primitive satisfies it), extract_baselines fails; and after a failure
   main only raises: the run ends in the error state and the EDF writer is
   never created, configured, written or closed. *)
C3_BaselineFailureFatal ==
  LET Segs(path) ==
        IF path.color = BLACK /\ WidthInRange(path) /\ Len(path.items) >= 4
        THEN {i \in 1..Len(path.items) :
                /\ path.items[i][1] = "l"
                /\ Abs(path.items[i][2].y - path.items[i][3].y) < 10
                /\ Abs(path.items[i][3].x - path.items[i][2].x) > 500000
                /\ path.items[i][2].y < 760000}
        ELSE {}
      count[j \in 0..Len(page)] ==
        IF j = 0 THEN 0
        ELSE count[j - 1] + Cardinality(Segs(Drawings[page[j]]))
  IN pc # "start" =>
       /\ count[Len(page)] < 4 => baselines = NoBaselines
       /\ baselines = NoBaselines =>
            /\ pc \in {"located", "error"}
            /\ edf_writer = NoWriter
            /\ trace = <<"Locator">>

\* the run has ended with the error although a black 0.4-wide primitive
\* with three qualifying segments is on the page
C3_Witness ==
  /\ pc = "error"
  /\ edf_writer = NoWriter
  /\ \E j \in 1..Len(page) : page[j] = "gridShort"

(* C4 as stated: whenever baseline detection succeeds, main does not fail
   whatever rows are empty (one, several or all), and the signal written
   has as many samples as the non-empty rows have points after
   deduplication. *)
C4_EmptyRowsNeverAbort ==
  (pc # "start" /\ baselines # NoBaselines) =>
    /\ pc # "crashed"
    /\ pc = "done" =>
         /\ Len(edf_writer.samples) = 1
         /\ LET n(r) == IF rows[r] = <<>> THEN 0 ELSE Len(Dedup(rows[r]))
            IN Len(edf_writer.samples[1]) = n(0) + n(1) + n(2) + n(3)

(* C5: a primitive that passes the waveform classification and yields at
   least one point has all its points appended to exactly one row, a row
   whose baseline is closest to the mean y of the points, if and only if
   that closest distance is strictly less than 80 units; otherwise no row
   changes. *)
C5_RowAssignment ==
  [][( /\ ExtractStep
       /\ IsWaveformPath(CurrentPath)
       /\ ExtractPoints(CurrentPath.items) # <<>> ) =>
       LET points == ExtractPoints(CurrentPath.items)
           n == Len(points)
           d(i) == Abs(SumY(points) - n * baselines[i])
           closest == {i \in 1..4 : \A h \in 1..4 : d(i) <= d(h)}
       IN IF \E i \in 1..4 : d(i) < 80000 * n
          THEN \E i \in closest :
                 rows' = [rows EXCEPT ![i - 1] = rows[i - 1] \o points]
          ELSE rows' = rows]_vars

\* one waveform stroke was dropped for lying 80 units or more from every
\* baseline while another one, at less than 80 units, filled a row
C5_Witness ==
  /\ pc = "extract"
  /\ k > Len(page)
  /\ \E j \in 1..Len(page) :
       LET points == ExtractPoints(get_drawings(page)[j].items)
       IN /\ IsWaveformPath(get_drawings(page)[j])
          /\ points # <<>>
          /\ ~ WithinReach(points)
  /\ \E r \in DOMAIN rows : rows[r] # <<>>
  /\ \E r \in DOMAIN rows : rows[r] = <<>>

(* C6: with n0..n3 the per-row sample counts after deduplication, the
   sequence built in main has length n0+n1+n2+n3 once all rows are done,
   the sample at index off(r) + i is the voltage of the i-th deduplicated
   point of row r against that row's baseline, rows follow one another in
   index order, and inside a row the x of the points ascends. *)
C6_ConcatenationOrder ==
  (pc \in {"reconstruct", "create", "patient", "channel", "ranges",
           "write", "close", "done"}) =>
    LET pts(r) == IF rows[r] = <<>> THEN <<>> ELSE Dedup(rows[r])
        n(r) == Len(pts(r))
        off[r \in 0..4] == IF r = 0 THEN 0 ELSE off[r - 1] + n(r - 1)
    IN /\ Len(all_voltages) = off[ri]
       /\ \A r \in 0..(ri - 1) :
            /\ \A i \in 1..n(r) :
                 all_voltages[off[r] + i] =
                   [num |-> baselines[r + 1] - pts(r)[i][2], den |-> 28346]
            /\ \A i \in 1..(n(r) - 1) : pts(r)[i][1] < pts(r)[i + 1][1]
       /\ pc # "reconstruct" =>
            /\ ri = 4
            /\ signal = all_voltages
            /\ Len(signal) = n(0) + n(1) + n(2) + n(3)

\* the sequence is complete and two rows gave samples, the earlier of them
\* more than one
C6_Witness ==
  /\ pc = "create"
  /\ \E r \in 0..3, q \in 0..3 :
       /\ r < q
       /\ Len(rows[r]) >= 2
       /\ rows[q] # <<>>
       /\ Len(signal) > Len(rows[q])

(* C7 as stated: whenever extract_baselines succeeds, the 4 baselines are
   strictly increasing in y and every one of them is below y = 760, in
   whatever order the qualifying segments occur in the primitive. *)
C7_BaselinesIncreasing ==
  (pc # "start" /\ baselines # NoBaselines) =>
    /\ \A i \in 1..(Len(baselines) - 1) : baselines[i] < baselines[i + 1]
    /\ \A i \in 1..Len(baselines) : baselines[i] < 760000

\* a step of main that converts the non-empty row ri
ReconstructStep == pc = "reconstruct" /\ ri < 4 /\ rows[ri] # <<>> /\ ri' = ri + 1

(* C8: points_to_voltage gives one voltage per point, in order, equal to
   (baseline_y - y) / 28.346 for the baseline of the row; a point at the
   baseline gives 0 mV, a point above it (smaller y) a positive voltage,
   and a point 28.346 * k units higher gives exactly k mV more. *)
C8_VoltageLinear ==
  [][ReconstructStep =>
       /\ Len(voltages') = Len(deduped')
       /\ \A i \in 1..Len(deduped') :
            LET y == deduped'[i][2]
                b == baselines[ri + 1]
                v == voltages'[i]
            IN /\ v.den = 28346
               /\ v.num = b - y
               /\ (y = b => v.num = 0)
               /\ (y < b => v.num > 0)
               /\ (y > b => v.num < 0)
               /\ \A m \in 1..MaxK :
                    LET w == points_to_voltage(
                               <<<<deduped'[i][1], y - 28346 * m>>>>,
                               b, CAL_PT_PER_MV)[1]
                    IN w.den = v.den /\ w.num = v.num + m * v.den]_vars

\* the row just converted has a sample of 0 mV, a positive and a negative one
C8_Witness ==
  /\ pc = "reconstruct"
  /\ ri > 0
  /\ rows[ri - 1] # <<>>
  /\ \E i, j, h \in 1..Len(voltages) :
       /\ voltages[i].num = 0 /\ deduped[i][2] = baselines[ri]
       /\ voltages[j].num > 0
       /\ voltages[h].num < 0

(* C9: the deduplication of main is idempotent: applied to its own output
   it returns that output; the output starts with the first point of the
   row, every two consecutive points of it differ in x by more than 0.01,
   and every point of the row is in it or lies within 0.01 of a kept
   point. *)
C9_DedupIdempotent ==
  (pc = "reconstruct" /\ ri > 0 /\ rows[ri - 1] # <<>>) =>
    /\ Dedup(deduped) = deduped
    /\ deduped[1] = rows[ri - 1][1]
    /\ \A i \in 1..(Len(deduped) - 1) :
         deduped[i + 1][1] - deduped[i][1] > 10
    /\ \A i \in 1..Len(rows[ri - 1]) :
         \E j \in 1..Len(deduped) :
           \/ deduped[j] = rows[ri - 1][i]
           \/ /\ deduped[j][1] <= rows[ri - 1][i][1]
              /\ rows[ri - 1][i][1] - deduped[j][1] <= 10

\* a row of clustered points was deduplicated: points were dropped, one of
\* them exactly 0.01 after the kept one, and at least three were kept
C9_Witness ==
  /\ pc = "reconstruct"
  /\ ri > 0
  /\ rows[ri - 1] # <<>>
  /\ Len(deduped) >= 3
  /\ Len(deduped) < Len(rows[ri - 1])
  /\ \E i \in 1..Len(rows[ri - 1]), j \in 1..Len(deduped) :
       rows[ri - 1][i][1] - deduped[j][1] = 10

SinkCalls == <<"EdfWriter">> \o PatientCalls \o ChannelCalls \o RangeCalls
             \o <<"writeSamples", "close">>

IsPrefix(s, t) == Len(s) <= Len(t) /\ s = SubSeq(t, 1, Len(s))

(* C10: in every run the stages occur in the order Locator, Extractor,
   Reconstructor, sink; the writer is created only after the whole sample
   sequence is built, every patient, recording and channel setting
   (physical and digital minimum and maximum included) precedes the write,
   the samples are written once as one complete array, and the writer is
   closed after the write and not touched again. *)
C10_PipelineOrder ==
  /\ IsPrefix(trace, <<"Locator", "Extractor", "Reconstructor", "Sink">>)
  /\ IsPrefix(edf_writer.calls, SinkCalls)
  /\ edf_writer.state # "none" =>
       /\ trace = <<"Locator", "Extractor", "Reconstructor", "Sink">>
       /\ ri = 4
       /\ signal = all_voltages
       /\ signal # <<>>
  /\ Len(edf_writer.samples) <= 1
  /\ edf_writer.samples # <<>> =>
       /\ edf_writer.samples[1] = signal
       /\ Len(edf_writer.physical) = 2
       /\ edf_writer.digital = <<-32768, 32767>>
       /\ IsPrefix(<<"EdfWriter">> \o PatientCalls \o ChannelCalls
                   \o RangeCalls, edf_writer.calls)
  /\ edf_writer.state = "closed" <=> pc = "done"
  /\ edf_writer.state = "closed" => Len(edf_writer.samples) = 1
  /\ edf_writer.state = "closed" => edf_writer.calls = SinkCalls

\* the run is over: the writer holds the one array and is closed
C10_Witness ==
  /\ pc = "done"
  /\ edf_writer.state = "closed"
  /\ edf_writer.calls = SinkCalls
  /\ edf_writer.samples = <<signal>>

====
